---- MODULE Spec2Model ----
(***************************************************************************)
(* Model of src/app.py: the ImprovedPDFConverter class (field extraction   *)
(* with regular expressions, assembly of the four sheets, writing of the   *)
(* workbook) and the metric computation of main().                         *)
(*                                                                         *)
(* Text is a sequence of symbols.  A symbol is one character ("1", ",",    *)
(* " ", "\n", "S", "$", "x", ...) or one literal phrase of a regular       *)
(* expression of the source ("Product Price", "Statement for", "to", ...), *)
(* kept atomic because the source only ever matches it as a whole.         *)
(* A Python float is modelled as an exact reduced fraction [n, d].         *)
(***************************************************************************)
EXTENDS Integers, Sequences, FiniteSets, TLC

VARIABLES tables, metadata, financial_summary, pdf_file, last_status, ret, st_messages, ui

vars == <<tables, metadata, financial_summary, pdf_file, last_status, ret, st_messages, ui>>

(***************************************************************************)
(* Characters and regular-expression classes (Python re, no re.DOTALL).    *)
(***************************************************************************)
Newline == "\n"

\* \s
Whitespace == {" ", Newline}

\* \d
Digits == {"0", "1", "2", "3", "4", "5", "6", "7", "8", "9"}

\* [\d,.-]
NumClass == Digits \cup {",", ".", "-"}

\* str.lower() of the phrases that occur in the texts; every other symbol
\* of the model is its own lower case.
LowerTable ==
  [s \in {"Merchandise Subtotal", "Product Price", "PRODUCT PRICE", "Refund Amount",
          "Shipping Subtotal", "Fees and Charges", "Commission fee", "Commission Fee",
          "Service Fee", "Transaction Fee", "Total Payout Released",
          "Amount Paid By Buyer"} |->
     CASE s = "Merchandise Subtotal" -> "merchandise subtotal"
       [] s \in {"Product Price", "PRODUCT PRICE"} -> "product price"
       [] s = "Refund Amount" -> "refund amount"
       [] s = "Shipping Subtotal" -> "shipping subtotal"
       [] s = "Fees and Charges" -> "fees and charges"
       [] s \in {"Commission fee", "Commission Fee"} -> "commission fee"
       [] s = "Service Fee" -> "service fee"
       [] s = "Transaction Fee" -> "transaction fee"
       [] s = "Total Payout Released" -> "total payout released"
       [] OTHER -> "amount paid by buyer"]

Lower(s) == IF s \in DOMAIN LowerTable THEN LowerTable[s] ELSE s

\* A literal of a pattern at position i, with or without re.IGNORECASE.
MatchLit(text, i, lit, ignorecase) ==
  /\ i \in 1..Len(text)
  /\ \/ text[i] = lit
     \/ ignorecase /\ Lower(text[i]) = Lower(lit)

\* End (exclusive) of the longest run of symbols of class S starting at i:
\* what a greedy S* consumes.
RunEnd(text, i, S) ==
  CHOOSE j \in i..(Len(text) + 1) :
    /\ \A k \in i..(j - 1) : text[k] \in S
    /\ j = Len(text) + 1 \/ text[j] \notin S

\* End (exclusive) of the longest run of symbols other than "\n" from i.
LineEnd(text, i) ==
  CHOOSE j \in i..(Len(text) + 1) :
    /\ \A k \in i..(j - 1) : text[k] # Newline
    /\ j = Len(text) + 1 \/ text[j] = Newline

NoMatch == [found |-> FALSE, group |-> <<>>]

Matched(g) == [found |-> TRUE, group |-> g]

Min(S) == CHOOSE x \in S : \A y \in S : x <= y

Max(S) == CHOOSE x \in S : \A y \in S : x >= y

(***************************************************************************)
(* Python floats as exact fractions; d = 0 stands for a raised             *)
(* ZeroDivisionError.                                                      *)
(***************************************************************************)
Abs(x) == IF x < 0 THEN -x ELSE x

RECURSIVE GCD(_, _)
GCD(a, b) == IF b = 0 THEN a ELSE GCD(b, a % b)

Rat(n, d) ==
  LET g == GCD(Abs(n), Abs(d))
      s == IF d < 0 THEN -1 ELSE 1
  IN  IF n = 0 THEN [n |-> 0, d |-> 1] ELSE [n |-> s * (n \div g), d |-> s * (d \div g)]

R0 == Rat(0, 1)

ZeroDivisionError == [n |-> 0, d |-> 0]

Raised(x) == x.d = 0

\* a / b
RatDiv(a, b) ==
  IF Raised(a) \/ Raised(b) \/ b.n = 0 THEN ZeroDivisionError ELSE Rat(a.n * b.d, a.d * b.n)

\* a * k for an integer k
RatTimes(a, k) == IF Raised(a) THEN a ELSE Rat(a.n * k, a.d)

\* abs(a)
RatAbs(a) == [n |-> Abs(a.n), d |-> a.d]

\* a > 0
RatPos(a) == a.n > 0

RECURSIVE Pow10(_)
Pow10(k) == IF k = 0 THEN 1 ELSE 10 * Pow10(k - 1)

DigitVal(c) ==
  CASE c = "0" -> 0 [] c = "1" -> 1 [] c = "2" -> 2 [] c = "3" -> 3 [] c = "4" -> 4
    [] c = "5" -> 5 [] c = "6" -> 6 [] c = "7" -> 7 [] c = "8" -> 8 [] OTHER -> 9

RECURSIVE DigitsVal(_)
DigitsVal(s) ==
  IF s = <<>> THEN 0 ELSE 10 * DigitsVal(SubSeq(s, 1, Len(s) - 1)) + DigitVal(s[Len(s)])

\* str.replace(c, ''), for a one-character c
RECURSIVE Remove(_, _)
Remove(s, c) ==
  IF s = <<>> THEN <<>>
  ELSE IF Head(s) = c THEN Remove(Tail(s), c) ELSE <<Head(s)>> \o Remove(Tail(s), c)

\* str.replace('S$', '')
RECURSIVE RemoveCurrency(_)
RemoveCurrency(s) ==
  IF Len(s) < 2 THEN s
  ELSE IF s[1] = "S" /\ s[2] = "$" THEN RemoveCurrency(SubSeq(s, 3, Len(s)))
  ELSE <<Head(s)>> \o RemoveCurrency(Tail(s))

\* float(s) for a string over [\d.-]: an optional sign, then digits with at
\* most one decimal point and at least one digit; anything else raises
\* ValueError.  (The other spellings float() accepts, such as exponents,
\* "inf" or underscores, need characters a captured group cannot hold.)
ParseFloat(s) ==
  LET neg  == s # <<>> /\ Head(s) = "-"
      body == IF neg THEN Tail(s) ELSE s
      dots == {i \in 1..Len(body) : body[i] = "."}
      ok   == /\ \A i \in 1..Len(body) : body[i] \in Digits \cup {"."}
              /\ Cardinality(dots) <= 1
              /\ \E i \in 1..Len(body) : body[i] \in Digits
      p    == IF dots = {} THEN Len(body) + 1 ELSE Min(dots)
      int  == SubSeq(body, 1, p - 1)
      frac == SubSeq(body, p + 1, Len(body))
      mag  == DigitsVal(int) * Pow10(Len(frac)) + DigitsVal(frac)
  IN  IF ok THEN [ok |-> TRUE, val |-> Rat(IF neg THEN -mag ELSE mag, Pow10(Len(frac)))]
      ELSE [ok |-> FALSE, val |-> R0]

(***************************************************************************)
(* extract_financial_summary                                               *)
(***************************************************************************)
FinancialKeys ==
  <<"merchandise_subtotal", "product_price", "refund_amount", "shipping_subtotal",
    "fees_and_charges", "commission_fee", "service_fee", "transaction_fee",
    "total_payout", "amount_paid_by_buyer">>

\* The patterns dict.  sep is what stands between the label and the group:
\* "ws" for \s+, "lazy" for .*?, "currency" for \s+S?\$?.  The group is
\* [\d,.-]+ or -?[\d,.-]+; "-" is in the class, so both capture the same
\* maximal run.
patterns ==
  [k \in {FinancialKeys[i] : i \in 1..Len(FinancialKeys)} |->
     CASE k = "merchandise_subtotal" -> [label |-> "Merchandise Subtotal", sep |-> "ws"]
       [] k = "product_price"        -> [label |-> "Product Price", sep |-> "ws"]
       [] k = "refund_amount"        -> [label |-> "Refund Amount", sep |-> "ws"]
       [] k = "shipping_subtotal"    -> [label |-> "Shipping Subtotal", sep |-> "ws"]
       [] k = "fees_and_charges"     -> [label |-> "Fees and Charges", sep |-> "ws"]
       [] k = "commission_fee"       -> [label |-> "Commission fee", sep |-> "lazy"]
       [] k = "service_fee"          -> [label |-> "Service Fee", sep |-> "lazy"]
       [] k = "transaction_fee"      -> [label |-> "Transaction Fee", sep |-> "lazy"]
       [] k = "total_payout"         -> [label |-> "Total Payout Released", sep |-> "currency"]
       [] OTHER                      -> [label |-> "Amount Paid By Buyer", sep |-> "ws"]]

\* ([\d,.-]+) at position j
NumGroupAt(text, j) ==
  LET e == RunEnd(text, j, NumClass)
  IN  IF e > j THEN Matched(SubSeq(text, j, e - 1)) ELSE NoMatch

\* label\s+([\d,.-]+) at position i
WsPatternAt(text, i, label) ==
  LET j == RunEnd(text, i + 1, Whitespace)
  IN  IF MatchLit(text, i, label, TRUE) /\ j > i + 1 THEN NumGroupAt(text, j) ELSE NoMatch

\* label.*?(-?[\d,.-]+) at position i: the lazy .*? stops at the first
\* symbol of the class and cannot step over a newline.
LazyPatternAt(text, i, label) ==
  LET p == RunEnd(text, i + 1, {text[k] : k \in 1..Len(text)} \ (NumClass \cup {Newline}))
  IN  IF MatchLit(text, i, label, TRUE) /\ p <= Len(text) /\ text[p] \in NumClass
      THEN NumGroupAt(text, p) ELSE NoMatch

\* label\s+S?\$?([\d,.-]+) at position i
CurrencyPatternAt(text, i, label) ==
  LET j  == RunEnd(text, i + 1, Whitespace)
      j1 == IF j <= Len(text) /\ text[j] = "S" THEN j + 1 ELSE j
      j2 == IF j1 <= Len(text) /\ text[j1] = "$" THEN j1 + 1 ELSE j1
  IN  IF MatchLit(text, i, label, TRUE) /\ j > i + 1 THEN NumGroupAt(text, j2) ELSE NoMatch

PatternAt(text, i, pat) ==
  CASE pat.sep = "ws"   -> WsPatternAt(text, i, pat.label)
    [] pat.sep = "lazy" -> LazyPatternAt(text, i, pat.label)
    [] OTHER            -> CurrencyPatternAt(text, i, pat.label)

\* re.search(pattern, text, re.IGNORECASE): the leftmost match
SearchFinancial(text, pat) ==
  LET I == {i \in 1..Len(text) : PatternAt(text, i, pat).found}
  IN  IF I = {} THEN NoMatch ELSE PatternAt(text, Min(I), pat)

\* Variant of FinancialValue that leaves the thousands separators in value_str.
FinancialValue_KeepSeparators(group) ==
  LET f == ParseFloat(RemoveCurrency(group))
  IN  IF f.ok THEN f.val ELSE R0

\* value_str, then float(value_str) with ValueError turned into 0.0
FinancialValue(group) ==
  LET value_str == RemoveCurrency(Remove(group, ","))
      f == ParseFloat(value_str)
  IN  IF f.ok THEN f.val ELSE R0

\* Variant of extract_financial_summary that drops a field whose value does
\* not parse (`except ValueError: pass`).
extract_financial_summary_SkipInvalid(text) ==
  LET K == {k \in DOMAIN patterns :
              /\ SearchFinancial(text, patterns[k]).found
              /\ ParseFloat(RemoveCurrency(Remove(SearchFinancial(text, patterns[k]).group, ","))).ok}
  IN  [k \in K |-> FinancialValue(SearchFinancial(text, patterns[k]).group)]

extract_financial_summary(text) ==
  LET K == {k \in DOMAIN patterns : SearchFinancial(text, patterns[k]).found}
  IN  [k \in K |-> FinancialValue(SearchFinancial(text, patterns[k]).group)]

(***************************************************************************)
(* extract_metadata                                                        *)
(***************************************************************************)
\* dict assignment d[k] = v and d.get(k, default)
Put(f, k, v) == [x \in DOMAIN f \cup {k} |-> IF x = k THEN v ELSE f[x]]

Get(f, k, default) == IF k \in DOMAIN f THEN f[k] ELSE default

EmptyDict == [x \in {} |-> <<>>]

\* str.strip()
Strip(s) ==
  LET I == {i \in 1..Len(s) : s[i] \notin Whitespace}
  IN  IF I = {} THEN <<>> ELSE SubSeq(s, Min(I), Max(I))

\* label\s*:\s*([^\n]+) at position i.  The second \s* is greedy and may
\* run over newlines; when nothing but the end of the text or a newline
\* follows it, it gives back whitespace until the group can start.
LinePatternAt(text, i, label) ==
  LET j == RunEnd(text, i + 1, Whitespace)
      k == RunEnd(text, j + 1, Whitespace)
      P == {p \in (j + 1)..k : p <= Len(text) /\ text[p] # Newline}
  IN  IF MatchLit(text, i, label, FALSE) /\ j <= Len(text) /\ text[j] = ":" /\ P # {}
      THEN Matched(SubSeq(text, Max(P), LineEnd(text, Max(P)) - 1))
      ELSE NoMatch

SearchLine(text, label) ==
  LET I == {i \in 1..Len(text) : LinePatternAt(text, i, label).found}
  IN  IF I = {} THEN NoMatch ELSE LinePatternAt(text, Min(I), label)

\* \d{4}-\d{2}-\d{2} at position i
DateAt(text, i) ==
  /\ i + 9 <= Len(text)
  /\ \A k \in {0, 1, 2, 3, 5, 6, 8, 9} : text[i + k] \in Digits
  /\ text[i + 4] = "-"
  /\ text[i + 7] = "-"

\* Variant of PeriodAt that also matches when the second date is missing.
PeriodAt_PartialMatch(text, i) ==
  LET a == RunEnd(text, i + 1, Whitespace)
  IN  IF MatchLit(text, i, "Statement for", FALSE) /\ a > i + 1 /\ DateAt(text, a)
      THEN [found |-> TRUE, group |-> <<SubSeq(text, a, a + 9), <<>> >>]
      ELSE NoMatch

\* Statement for\s+(\d{4}-\d{2}-\d{2})\s+to\s+(\d{4}-\d{2}-\d{2}) at position i
PeriodAt(text, i) ==
  LET a == RunEnd(text, i + 1, Whitespace)
      b == RunEnd(text, a + 10, Whitespace)
      c == RunEnd(text, b + 1, Whitespace)
  IN  IF /\ MatchLit(text, i, "Statement for", FALSE)
         /\ a > i + 1
         /\ DateAt(text, a)
         /\ b > a + 10
         /\ MatchLit(text, b, "to", FALSE)
         /\ c > b + 1
         /\ DateAt(text, c)
      THEN [found |-> TRUE, group |-> <<SubSeq(text, a, a + 9), SubSeq(text, c, c + 9)>>]
      ELSE NoMatch

SearchPeriod(text) ==
  LET I == {i \in 1..Len(text) : PeriodAt(text, i).found}
  IN  IF I = {} THEN NoMatch ELSE PeriodAt(text, Min(I))

\* info['document_type'] = 'Shopee Income Statement'
DocumentType(text) == <<"Shopee Income Statement">>

\* The info dict from the four matches: a key is set where its match was
\* found.  now is datetime.now().strftime(...), one symbol.
InfoDict(text, filename, now, company_match, period_match, bank_match, username_match) ==
  [x \in {"filename", "processed_at", "document_type"}
           \cup (IF company_match.found THEN {"company"} ELSE {})
           \cup (IF period_match.found THEN {"period_start", "period_end", "period"} ELSE {})
           \cup (IF bank_match.found THEN {"bank"} ELSE {})
           \cup (IF username_match.found THEN {"username"} ELSE {}) |->
     CASE x = "filename"      -> <<filename>>
       [] x = "processed_at"  -> <<now>>
       [] x = "company"       -> Strip(company_match.group)
       [] x = "period_start"  -> period_match.group[1]
       [] x = "period_end"    -> period_match.group[2]
       [] x = "period"        -> period_match.group[1] \o <<" ", "to", " ">> \o period_match.group[2]
       [] x = "bank"          -> Strip(bank_match.group)
       [] x = "username"      -> Strip(username_match.group)
       [] OTHER               -> DocumentType(text)]

extract_metadata(text, filename, now) ==
  InfoDict(text, filename, now,
           SearchLine(text, "Name in Bank Account"),
           SearchPeriod(text),
           SearchLine(text, "Bank Name"),
           SearchLine(text, "Username"))

(***************************************************************************)
(* create_structured_tables                                                *)
(*                                                                         *)
(* A cell is [k, s, v]: a string cell holds its symbols in s; a float cell *)
(* holds its value in v; "money" is the f-string f"${v:,.2f}" and "pct2"   *)
(* the f-string f"{v:.2f}%" of the value v.                                *)
(***************************************************************************)
Str(x) == [k |-> "str", s |-> x, v |-> R0]

Word(w) == Str(<<w>>)

Float(r) == [k |-> "float", s |-> <<>>, v |-> r]

Money(r) == [k |-> "money", s |-> <<"$">>, v |-> r]

Pct2(r) == [k |-> "pct2", s |-> <<"%">>, v |-> r]

\* amounts of the literal tables, written in hundredths
Cents(c) == Rat(c, 100)

DailyRow(date, cs) == <<Word(date)>> \o [i \in 1..Len(cs) |-> Float(Cents(cs[i]))]

daily_data ==
  << <<Word("Date"), Word("Product_Price"), Word("Refund_Amount"), Word("Rebate_By_Shopee"),
       Word("Voucher_By_Seller"), Word("Shipping_Fee_By_Buyer"), Word("Shipping_Fee_By_Logistic"),
       Word("Shipping_Rebate"), Word("Reverse_Shipping"), Word("Fee_Saver_Savings"),
       Word("Commission_Fee"), Word("Service_Fee"), Word("Transaction_Fee"),
       Word("Fee_Saver_Fee"), Word("Total_Payout")>>,
    DailyRow("2025-08-18", <<282254, -1260, 0, -2100, 4179, -38126, 10149, 0, 203, -21269, -16776, -9256, -1275, 206723>>),
    DailyRow("2025-08-19", <<262849, -20688, 0, -3900, 3184, -29467, 8557, -1207, 2417, -18179, -14947, -7896, -1125, 179598>>),
    DailyRow("2025-08-20", <<262193, 0, 0, -4200, 5174, -33249, 9154, 0, 0, -19679, -16109, -8608, -1215, 193461>>),
    DailyRow("2025-08-21", <<254083, -1727, 0, -4500, 3980, -30163, 8159, 0, 0, -18908, -15867, -8237, -1140, 185680>>),
    DailyRow("2025-08-22", <<196722, 0, 0, -6300, 2587, -21826, 6169, 0, 0, -14522, -12164, -6310, -870, 143486>>),
    DailyRow("2025-08-23", <<215741, -1390, 0, -600, 2388, -24575, 7562, 0, 203, -16308, -12886, -7115, -900, 162120>>),
    DailyRow("2025-08-24", <<189128, 0, 66, -600, 2587, -24284, 7363, 0, 0, -14390, -11713, -6253, -900, 141004>>),
    DailyRow("TOTAL", <<1662970, -25065, 66, -22200, 24079, -201690, 57113, -1207, 2823, -123255, -100462, -53675, -7425, 1212072>>) >>

adjustments_data ==
  << <<Word("Date"), Word("Adjustment_Type"), Word("Amount_SGD"), Word("Description")>>,
     <<Word("2025-08-18"), Word("Return Refund"), Float(Cents(-1771)),
       Word("Return Refund Adjustment After Order Completed")>>,
     <<Word("2025-08-21"), Word("Logistic Compensation"), Float(Cents(1427)),
       Word("Logistic Issue Adjustment/Compensation")>>,
     <<Word("TOTAL"), Word("Net Adjustment"), Float(Cents(-344)), Word("Total adjustment amount")>> >>

NotAvailable == <<"N/A">>

summary_data(meta, fs) ==
  << <<Word("Property"), Word("Value")>>,
     <<Word("Company"), Str(Get(meta, "company", NotAvailable))>>,
     <<Word("Period"), Str(Get(meta, "period", NotAvailable))>>,
     <<Word("Bank"), Str(Get(meta, "bank", NotAvailable))>>,
     <<Word("Username"), Str(Get(meta, "username", NotAvailable))>>,
     <<Word("Processing Date"), Str(Get(meta, "processed_at", NotAvailable))>>,
     <<Str(<<>>), Str(<<>>)>>,
     <<Word("FINANCIAL SUMMARY"), Str(<<>>)>>,
     <<Word("Merchandise Subtotal"), Money(Get(fs, "merchandise_subtotal", R0))>>,
     <<Word("Product Price"), Money(Get(fs, "product_price", R0))>>,
     <<Word("Refund Amount"), Money(Get(fs, "refund_amount", R0))>>,
     <<Word("Shipping Subtotal"), Money(Get(fs, "shipping_subtotal", R0))>>,
     <<Word("Fees and Charges"), Money(Get(fs, "fees_and_charges", R0))>>,
     <<Word("Commission Fee"), Money(Get(fs, "commission_fee", R0))>>,
     <<Word("Service Fee"), Money(Get(fs, "service_fee", R0))>>,
     <<Word("Transaction Fee"), Money(Get(fs, "transaction_fee", R0))>>,
     <<Word("Total Payout Released"), Money(Get(fs, "total_payout", R0))>>,
     <<Word("Amount Paid By Buyer"), Money(Get(fs, "amount_paid_by_buyer", R0))>> >>

\* Variant of FeeRate without the guard on total_revenue.
FeeRate_NoGuard(total_fees, total_revenue) ==
  RatTimes(RatDiv(total_fees, total_revenue), 100)

\* fee_rate = (total_fees / total_revenue * 100) if total_revenue > 0 else 0
FeeRate(total_fees, total_revenue) ==
  IF RatPos(total_revenue) THEN RatTimes(RatDiv(total_fees, total_revenue), 100) ELSE R0

\* f"{(net_payout/total_revenue*100):.2f}%" if total_revenue > 0 else "0%"
ProfitMargin(net_payout, total_revenue) ==
  IF RatPos(total_revenue) THEN Pct2(RatTimes(RatDiv(net_payout, total_revenue), 100))
  ELSE Word("0%")

\* the sample breakdown has seven days
DaysInBreakdown == 7

AnalyticsRows(total_revenue, total_fees, net_payout, fee_rate) ==
      << <<Word("Metric"), Word("Value"), Word("Analysis")>>,
         <<Word("Total Revenue"), Money(total_revenue), Word("Gross product sales")>>,
         <<Word("Total Platform Fees"), Money(total_fees), Word("Shopee platform costs")>>,
         <<Word("Net Payout"), Money(net_payout), Word("Final amount received")>>,
         <<Word("Effective Fee Rate"), Pct2(fee_rate), Word("Platform fee percentage")>>,
         <<Word("Average Daily Sales"), Money(RatDiv(total_revenue, Rat(DaysInBreakdown, 1))),
           Word("7-day average")>>,
         <<Word("Profit Margin"), ProfitMargin(net_payout, total_revenue),
           Word("Net profit percentage")>>,
         <<Word("Best Day Revenue"), Word("$2,822.54"), Word("2025-08-18 (highest sales)")>>,
         <<Word("Lowest Day Revenue"), Word("$1,891.28"), Word("2025-08-24 (lowest sales)")>> >>

AnalyticsOf(total_revenue, total_fees, net_payout) ==
  AnalyticsRows(total_revenue, total_fees, net_payout, FeeRate(total_fees, total_revenue))

\* Variant of analytics_data without abs() around the fees.
analytics_data_SignedFees(fs) ==
  AnalyticsOf(Get(fs, "product_price", R0), Get(fs, "fees_and_charges", R0),
              Get(fs, "total_payout", R0))

analytics_data(fs) ==
  AnalyticsOf(Get(fs, "product_price", R0), RatAbs(Get(fs, "fees_and_charges", R0)),
              Get(fs, "total_payout", R0))

Sheet(name, data, description) == [name |-> name, data |-> data, description |-> description]

\* A division that raised while a row was being built
DataRaised(data) ==
  \E r \in 1..Len(data) : \E c \in 1..Len(data[r]) : Raised(data[r][c].v)

FirstThreeSheets(meta, fs) ==
  << Sheet("Summary_Report", summary_data(meta, fs),
           "Document information and financial summary"),
     Sheet("Daily_Payout_Details", daily_data, "Daily breakdown of payout details"),
     Sheet("Order_Adjustments", adjustments_data, "Order adjustments and compensations") >>

\* self.tables after the call, and whether the call raised.  The first three
\* sheets are appended before the analytics are computed, so an exception
\* there leaves three sheets behind.
TablesWith(first3, analytics) ==
  IF DataRaised(analytics)
  THEN [raised |-> TRUE, detail |-> "float division by zero", tables |-> first3]
  ELSE [raised |-> FALSE, detail |-> "",
        tables |-> Append(first3, Sheet("Business_Analytics", analytics,
                                        "Business performance metrics and analysis"))]

create_structured_tables(meta, fs) ==
  TablesWith(FirstThreeSheets(meta, fs), analytics_data(fs))

(***************************************************************************)
(* create_excel_file                                                       *)
(***************************************************************************)
\* pd.DataFrame(data[1:], columns=data[0]) raises when a row has more cells
\* than there are columns.
DataFrameRaises(data) == \E r \in 2..Len(data) : Len(data[r]) > Len(data[1])

\* table['name'][:31]; every name the converter gives is shorter than that
SheetName(name) == name

\* What the environment does to the write of one sheet: nothing, make
\* pd.DataFrame(...) raise (no worksheet has been added yet), or make
\* df.to_excel(...) raise while it writes the cells (the worksheet has been
\* added to the workbook and stays in it, partly written).
FaultKinds == {"none", "DataFrame", "to_excel"}

\* A worksheet of the workbook; complete is FALSE for one that to_excel left
\* partly written, whose cells are not modelled.
Worksheet(table) ==
  [sheet_name |-> SheetName(table.name), complete |-> TRUE,
   columns |-> Head(table.data), rows |-> Tail(table.data)]

PartialWorksheet(table) ==
  [sheet_name |-> SheetName(table.name), complete |-> FALSE,
   columns |-> <<>>, rows |-> <<>>]

Warning(table) == [level |-> "warning", about |-> table.name]

\* Variant of WriteSheets that leaves the loop at the first sheet whose write
\* raises (`break` for `continue`).
RECURSIVE WriteSheets_StopAtFailure(_, _, _)
WriteSheets_StopAtFailure(tbls, i, faults) ==
  IF i > Len(tbls) THEN [written |-> <<>>, warnings |-> <<>>]
  ELSE IF faults[i] = "DataFrame" \/ DataFrameRaises(tbls[i].data)
  THEN [written |-> <<>>, warnings |-> <<Warning(tbls[i])>>]
  ELSE IF faults[i] = "to_excel"
  THEN [written |-> <<PartialWorksheet(tbls[i])>>, warnings |-> <<Warning(tbls[i])>>]
  ELSE LET rest == WriteSheets_StopAtFailure(tbls, i + 1, faults)
       IN  [written |-> <<Worksheet(tbls[i])>> \o rest.written,
            warnings |-> rest.warnings]

\* The loop over self.tables from table i on.  faults[i] is what the
\* environment does to the write of table i.  Returns the worksheets in the
\* workbook and the warnings shown, in order.
RECURSIVE WriteSheets(_, _, _)
WriteSheets(tbls, i, faults) ==
  IF i > Len(tbls) THEN [written |-> <<>>, warnings |-> <<>>]
  ELSE LET rest == WriteSheets(tbls, i + 1, faults)
       IN  IF faults[i] = "DataFrame" \/ DataFrameRaises(tbls[i].data)
           THEN [written |-> rest.written,
                 warnings |-> <<Warning(tbls[i])>> \o rest.warnings]
           ELSE IF faults[i] = "to_excel"
           THEN [written |-> <<PartialWorksheet(tbls[i])>> \o rest.written,
                 warnings |-> <<Warning(tbls[i])>> \o rest.warnings]
           ELSE [written |-> <<Worksheet(tbls[i])>> \o rest.written,
                 warnings |-> rest.warnings]

\* Leaving the `with pd.ExcelWriter(...)` block saves the workbook; openpyxl
\* refuses to save a workbook without a worksheet ("At least one sheet must
\* be visible"), which the outer except reports.
SaveRaises(written) == written = <<>>

NoSheets == <<>>

NoFaults == <<>>

\* [none, sheets, messages]: the returned buffer (none = TRUE for None) and
\* what st.warning / st.error showed
create_excel_file(tbls, faults) ==
  LET w == WriteSheets(tbls, 1, faults)
  IN  IF tbls = <<>> THEN [none |-> TRUE, sheets |-> NoSheets, messages |-> <<>>]
      ELSE IF SaveRaises(w.written)
      THEN [none |-> TRUE, sheets |-> NoSheets,
            messages |-> w.warnings \o <<[level |-> "error", about |-> "Error creating Excel file"]>>]
      ELSE [none |-> FALSE, sheets |-> w.written, messages |-> w.warnings]

(***************************************************************************)
(* Documents handed to the converter.  A document is what pdfplumber makes *)
(* of an uploaded file: it opens or not, and each page gives a text (empty *)
(* when the page has none) and the raw tables of the page.                 *)
(***************************************************************************)
\* most pages of a generated multi-page document
MaxPages == 2

RECURSIVE DigitsOf(_)
DigitsOf(n) ==
  LET d == <<"0", "1", "2", "3", "4", "5", "6", "7", "8", "9">>[(n % 10) + 1]
  IN  IF n < 10 THEN <<d>> ELSE DigitsOf(n \div 10) \o <<d>>

RECURSIVE Grouped(_)
Grouped(ds) ==
  IF Len(ds) <= 3 THEN ds
  ELSE Grouped(SubSeq(ds, 1, Len(ds) - 3)) \o <<",">> \o SubSeq(ds, Len(ds) - 2, Len(ds))

\* An amount of c hundredths as a statement prints it: 1662970 is
\* 16,629.70 with thousands separators and 16629.70 without.
Render(c, commas) ==
  LET a    == Abs(c)
      int  == DigitsOf(a \div 100)
      frac == <<DigitsOf((a % 100) \div 10)[1], DigitsOf(a % 10)[1]>>
  IN  (IF c < 0 THEN <<"-">> ELSE <<>>) \o (IF commas THEN Grouped(int) ELSE int)
        \o <<".">> \o frac

Amounts == {0, 1250, -25065, 1662970, 1212072}

Markers == {<<>>, <<"S", "$">>}

LabelOf(k) == patterns[k].label

\* label, one space, optional currency marker, amount
PairLine(label, marker, c, commas) == <<label, " ">> \o marker \o Render(c, commas)

PairLines ==
  {PairLine(LabelOf(k), m, c, g) : k \in DOMAIN patterns, m \in Markers, c \in Amounts,
                                  g \in BOOLEAN}
    \cup {PairLine(l, <<>>, c, TRUE) : l \in {"PRODUCT PRICE", "Commission Fee"}, c \in Amounts}

\* tokens that are not numbers
OddTokens ==
  {<<"x">>, <<"N", "/", "A">>, <<"-">>, <<".">>, <<"1", ".", "2", ".", "3">>,
   <<"1", "-", "2">>, <<"1", "2", "x">>}

OddLines == {<<LabelOf(k), " ">> \o t : k \in DOMAIN patterns, t \in OddTokens}

Date1 == <<"2", "0", "2", "5", "-", "0", "8", "-", "1", "8">>

Date2 == <<"2", "0", "2", "5", "-", "0", "8", "-", "2", "4">>

PeriodLines ==
  { <<"Statement for", " ">> \o Date1 \o <<" ", "to", " ">> \o Date2,
    <<"Statement for", " ">> \o Date2 \o <<" ", "to", " ">> \o Date1,
    <<"x", " ", "Statement for", Newline>> \o Date1 \o <<" ", " ", "to", " ">> \o Date2 \o <<" ", "x">>,
    <<"Statement for", " ">> \o Date1 \o <<" ", "to", " ">> \o Date2 \o <<"5">>,
    <<"Statement for", " ">> \o Date1 \o <<" ", "to", " ">> \o Date2 \o <<"x">>,
    <<"Statement for", " ">> \o Date1 \o <<"1", " ", "to", " ">> \o Date2,
    <<"Statement for", " ", "x">> \o Date1 \o <<" ", "to", " ">> \o Date2,
    <<"Statement for", " ">> \o Date1 \o <<" ", "to", " ">> \o SubSeq(Date2, 1, 7),
    <<"Statement for", " ">> \o SubSeq(Date1, 1, 9) \o <<" ", "to", " ">> \o Date2,
    <<"Statement for", " ">> \o Date1 \o <<" ", "to">>,
    <<"Statement for", " ", "to", " ">> \o Date2,
    <<"Statement for", " ">> \o Date1 \o <<" ">> \o Date2,
    <<"statement for", " ">> \o Date1 \o <<" ", "to", " ">> \o Date2,
    <<"Statement for", " ">> \o Date1 \o <<" ", "to", " ", "x", Newline,
      "Statement for", " ">> \o Date2 \o <<" ", "to", " ">> \o Date1 }

InfoLines ==
  { <<"Name in Bank Account", ":", " ", "A", "C", "M", "E", " ">>,
    <<"Bank Name", " ", ":", " ", " ", "D", "B", "S", Newline, "Username", ":", "x">>,
    <<"Bank Name", ":", Newline, "Username", ":", " ", "x">>,
    <<"Username", ":", " ">>,
    <<"Shopee", " ", "x">>,
    <<"x">> }

\* product price, fees and payout lines of the analytics sheet, joined
PriceLines ==
  {<<>>} \cup {<<"Product Price", " ">> \o Render(c, TRUE) \o <<Newline>> : c \in {0, 10000, -10000, 123456}}

FeesLines ==
  {<<>>} \cup {<<"Fees and Charges", " ">> \o Render(c, TRUE) \o <<Newline>> : c \in {-1250, 1250}}

PayoutLines ==
  {<<>>} \cup {<<"Total Payout Released", " ", "S", "$">> \o Render(c, TRUE) : c \in {8000, -500}}

AnalyticsTexts == {p \o f \o t : p \in PriceLines, f \in FeesLines, t \in PayoutLines}

\* 'Merchandise Subtotal 16,629.70' and 'Total Payout Released S$12,120.72'
ExampleText ==
  PairLine("Merchandise Subtotal", <<>>, 1662970, TRUE) \o <<Newline>>
    \o PairLine("Total Payout Released", <<"S", "$">>, 1212072, TRUE)

Null == [null |-> TRUE, s |-> <<>>]

RawCell(x) == [null |-> FALSE, s |-> x]

\* [["A","B"],[null," x  y "],["",""]]
ExampleRawTable ==
  << <<RawCell(<<"A">>), RawCell(<<"B">>)>>,
     <<Null, RawCell(<<" ", "x", " ", " ", "y", " ">>)>>,
     <<RawCell(<<>>), RawCell(<<>>)>> >>

RawTables ==
  { <<>>,
    <<ExampleRawTable>>,
    << << <<RawCell(<<"A">>)>>, <<Null>> >> >>,
    << << <<RawCell(<<"H">>)>>, <<RawCell(<<"1", " ", Newline, "2">>)>>, <<Null>>,
          <<RawCell(<<"3">>), Null>> >> >> }

Page(text, tbls) == [text |-> text, tables |-> tbls]

Document(name, fault, pages) == [name |-> name, fault |-> fault, pages |-> pages]

\* pages of the generated multi-page documents
SmallPages ==
  { Page(<<>>, <<>>),
    Page(PairLine("Product Price", <<>>, 10000, TRUE), <<>>),
    Page(PairLine("Product Price", <<>>, 123456, TRUE), <<>>),
    Page(PairLine("Fees and Charges", <<>>, -1250, TRUE), <<>>),
    Page(PairLine("Total Payout Released", <<"S", "$">>, 8000, TRUE), <<>>),
    Page(<<"Statement for", " ">> \o Date1 \o <<" ", "to", " ">> \o Date2, <<ExampleRawTable>>) }

RECURSIVE PageSeqs(_)
PageSeqs(n) ==
  IF n = 0 THEN {<<>>}
  ELSE LET S == PageSeqs(n - 1)
       IN  S \cup {Append(ps, p) : ps \in {x \in S : Len(x) = n - 1}, p \in SmallPages}

Docs ==
  {Document("statement.pdf", "none", <<Page(t, <<>>)>>) :
     t \in PairLines \cup OddLines \cup PeriodLines \cup InfoLines \cup AnalyticsTexts
             \cup {ExampleText}}
    \cup {Document("statement.pdf", "none", <<Page(<<>>, r)>>) : r \in RawTables}
    \cup {Document("statement.pdf", "none", ps) : ps \in PageSeqs(MaxPages)}
    \cup {Document("broken.pdf", f, <<>>) : f \in {"open", "extract_text"}}

\* datetime.now().strftime("%Y-%m-%d %H:%M:%S")
Clock == {"2025-08-25 09:00:00", "2025-08-25 09:00:01"}

\* str(e) of the exception pdfplumber raises
ExceptionDetail(fault) ==
  IF fault = "open" THEN "No /Root object! - Is this really a PDF?" ELSE "extract_text failed"

(***************************************************************************)
(* extract_tables_from_pdf                                                 *)
(***************************************************************************)
\* the loop over pdf.pages: pages without text are skipped
RECURSIVE full_text(_)
full_text(pages) ==
  IF pages = <<>> THEN <<>>
  ELSE (IF Head(pages).text # <<>> THEN Head(pages).text \o <<Newline>> ELSE <<>>)
         \o full_text(Tail(pages))

\* The converter and the returned pair once create_structured_tables has
\* run: ok is the status, n the number in the success message, detail the
\* exception text in the failure message.
Processed(meta, fs, cst) ==
  [tables |-> cst.tables, metadata |-> meta, financial_summary |-> fs,
   ok |-> ~cst.raised,
   n |-> IF cst.raised THEN 0 ELSE Len(cst.tables),
   detail |-> cst.detail]

Assembled(meta, fs) == Processed(meta, fs, create_structured_tables(meta, fs))

ProcessText(text, filename, now) ==
  Assembled(extract_metadata(text, filename, now), extract_financial_summary(text))

\* Variant of extract_tables_from_pdf that empties self.tables before it
\* opens the document.
extract_tables_from_pdf_ResetFirst(self, pdf, now) ==
  IF pdf.fault # "none"
  THEN [tables |-> <<>>, metadata |-> self.metadata,
        financial_summary |-> self.financial_summary,
        ok |-> FALSE, n |-> 0, detail |-> ExceptionDetail(pdf.fault)]
  ELSE ProcessText(full_text(pdf.pages), pdf.name, now)

\* The converter after extract_tables_from_pdf(pdf) called on the converter
\* self = [tables, metadata, financial_summary], and the pair it returns.
\* An exception of pdfplumber leaves the converter as it was.
extract_tables_from_pdf(self, pdf, now) ==
  IF pdf.fault # "none"
  THEN [tables |-> self.tables, metadata |-> self.metadata,
        financial_summary |-> self.financial_summary,
        ok |-> FALSE, n |-> 0, detail |-> ExceptionDetail(pdf.fault)]
  ELSE ProcessText(full_text(pdf.pages), pdf.name, now)

Fresh == [tables |-> <<>>, metadata |-> EmptyDict, financial_summary |-> EmptyDict]

(***************************************************************************)
(* main: the metrics shown after a successful conversion                   *)
(***************************************************************************)
NoMetrics == [shown |-> FALSE, total_revenue |-> R0, net_payout |-> R0, total_fees |-> R0,
              fee_rate |-> R0]

Metrics(total_revenue, net_payout, total_fees) ==
  [shown |-> TRUE, total_revenue |-> total_revenue, net_payout |-> net_payout,
   total_fees |-> total_fees, fee_rate |-> FeeRate(total_fees, total_revenue)]

main_metrics(fs) ==
  Metrics(Get(fs, "product_price", R0), Get(fs, "total_payout", R0),
          RatAbs(Get(fs, "fees_and_charges", R0)))

(***************************************************************************)
(* The converter as a state machine: one action per method, and one for    *)
(* the metric display of main().                                           *)
(***************************************************************************)
NoFile == Document("", "none", <<>>)

\* What the last call returned: ok is the status (for create_excel_file:
\* a buffer and not None), n the table count of the message, detail the
\* exception text, sheets the worksheets of the buffer; faults remembers
\* what the environment did to the write of each sheet.
Ret(op, ok, n, detail, sheets, faults) ==
  [op |-> op, ok |-> ok, n |-> n, detail |-> detail, sheets |-> sheets, faults |-> faults]

\* __init__
Init ==
  /\ tables = <<>>
  /\ metadata = EmptyDict
  /\ financial_summary = EmptyDict
  /\ pdf_file = NoFile
  /\ last_status = "none"
  /\ ret = Ret("__init__", TRUE, 0, "", NoSheets, NoFaults)
  /\ st_messages = <<>>
  /\ ui = NoMetrics

\* converter = ImprovedPDFConverter()
NewConverter ==
  /\ tables' = <<>>
  /\ metadata' = EmptyDict
  /\ financial_summary' = EmptyDict
  /\ pdf_file' = NoFile
  /\ last_status' = "none"
  /\ ret' = Ret("__init__", TRUE, 0, "", NoSheets, NoFaults)
  /\ st_messages' = <<>>
  /\ ui' = NoMetrics

\* success, message = converter.extract_tables_from_pdf(pdf), for a
\* document of D
ExtractTablesFromPdf(D) ==
  \E d \in D, now \in Clock :
    \E r \in {extract_tables_from_pdf(
               [tables |-> tables, metadata |-> metadata,
                financial_summary |-> financial_summary], d, now)} :
        /\ tables' = r.tables
        /\ metadata' = r.metadata
        /\ financial_summary' = r.financial_summary
        /\ pdf_file' = d
        /\ last_status' = IF r.ok THEN "ok" ELSE "failed"
        /\ ret' = Ret("extract_tables_from_pdf", r.ok, r.n, r.detail, NoSheets, NoFaults)
        /\ st_messages' = <<>>
        /\ ui' = NoMetrics

\* excel_file = converter.create_excel_file(); which sheet writes raise, and
\* where, is the environment's choice
CreateExcelFile ==
  \E faults \in [1..Len(tables) -> FaultKinds] :
    \E r \in {create_excel_file(tables, faults)} :
        /\ ret' = Ret("create_excel_file", ~r.none, 0, "", r.sheets, faults)
        /\ st_messages' = r.messages
        /\ UNCHANGED <<tables, metadata, financial_summary, pdf_file, last_status, ui>>

\* main, `if success:` ... `if converter.metadata:` ... st.metric(...)
MainShowMetrics ==
  /\ ret.op = "extract_tables_from_pdf"
  /\ ret.ok
  /\ DOMAIN metadata # {}
  /\ ~ui.shown
  /\ ui' = main_metrics(financial_summary)
  /\ UNCHANGED <<tables, metadata, financial_summary, pdf_file, last_status, ret, st_messages>>

(***************************************************************************)
(* Spec: a client of the class calls its methods in any order, on a few    *)
(* documents.                                                              *)
(***************************************************************************)
ApiDocs ==
  {Document("statement.pdf", "none", <<Page(t, r)>>) :
     t \in {<<>>,
            <<"Product Price", " ", "1", "0", "0", ".", "0", "0", Newline,
              "Fees and Charges", " ", "-", "1", "2", ".", "5", "0">>,
            <<"Total Payout Released", " ", "S", "$", "8", "0", ".", "0", "0">>},
     r \in {<<>>, <<ExampleRawTable>>}}
    \cup {Document("broken.pdf", f, <<>>) : f \in {"open", "extract_text"}}

ApiExtract == ExtractTablesFromPdf(ApiDocs)

Next ==
  \/ NewConverter
  \/ ApiExtract
  \/ CreateExcelFile
  \/ MainShowMetrics

Spec == Init /\ [][Next]_vars

(***************************************************************************)
(* MainSpec: the button handler of main(), which makes a new converter for *)
(* every conversion and calls it in a fixed order, on every document.      *)
(***************************************************************************)
\* converter = ImprovedPDFConverter(); converter.extract_tables_from_pdf(uploaded_file)
MainConvert ==
  /\ ret.op = "__init__"
  /\ ExtractTablesFromPdf(Docs)

\* excel_file = converter.create_excel_file(), after the metrics and previews
MainCreateExcel ==
  /\ ret.op = "extract_tables_from_pdf"
  /\ ui.shown
  /\ CreateExcelFile

\* the handler has returned; the next click starts with a new converter
MainRerun ==
  /\ \/ ret.op = "create_excel_file"
     \/ ret.op = "extract_tables_from_pdf" /\ ~ret.ok
  /\ NewConverter

MainNext ==
  \/ MainConvert
  \/ MainShowMetrics
  \/ MainCreateExcel
  \/ MainRerun

MainSpec == Init /\ [][MainNext]_vars

(***************************************************************************)
(* Properties.  They speak about the document of the last conversion       *)
(* (pdf_file) and what the converter holds after it.                       *)
(***************************************************************************)
\* the Document Text of the last document
Text == full_text(pdf_file.pages)

\* the last call of extract_tables_from_pdf returned success
Converted == last_status = "ok"

\* extract_tables_from_pdf has just returned success: metadata and
\* financial_summary are as the call left them (no other method assigns them)
Extracted == ret.op = "extract_tables_from_pdf" /\ ret.ok

\* every amount a generated statement prints
PrintedAmounts == Amounts \cup {10000, -10000, 123456, -1250, 1250, 8000, -500}

\* positions of the label of field k, in any letter case
LabelPositions(text, k) == {i \in 1..Len(text) : Lower(text[i]) = Lower(LabelOf(k))}

\* the first occurrence of the label of k is followed by a space and the
\* whole token tok
FollowedBy(text, k, tok) ==
  /\ LabelPositions(text, k) # {}
  /\ LET i == Min(LabelPositions(text, k))
         e == i + 1 + Len(tok)
     IN  /\ e <= Len(text)
         /\ SubSeq(text, i + 1, e) = <<" ">> \o tok
         /\ e = Len(text) \/ text[e + 1] \in Whitespace

\* fields whose pattern lets a currency marker stand before the token
MarkerFields == {"total_payout", "commission_fee", "service_fee", "transaction_fee"}

\* C1 as claimed: for each of the ten fields, a label followed by an amount
\* (optional thousands separators, optional minus, optional currency marker
\* S$) yields the field with the value of the amount.
C1_AnyFieldWithMarker ==
  Extracted =>
    \A k \in DOMAIN patterns, m \in Markers, c \in PrintedAmounts, g \in BOOLEAN :
      FollowedBy(Text, k, m \o Render(c, g)) =>
        k \in DOMAIN financial_summary /\ financial_summary[k] = Cents(c)

\* C1 (amended): the first occurrence of a label followed by an amount with
\* optional thousands separators and optional minus yields the field with
\* the value of the amount; a currency marker S$ before the amount is
\* accepted for total_payout and the three fee fields, and for the other six
\* fields a label that occurs once and is followed by a marker yields no
\* field.
C1_LabelValuePairs ==
  Extracted =>
    \A k \in DOMAIN patterns, m \in Markers, c \in PrintedAmounts, g \in BOOLEAN :
      FollowedBy(Text, k, m \o Render(c, g)) =>
        IF m = <<>> \/ k \in MarkerFields
        THEN k \in DOMAIN financial_summary /\ financial_summary[k] = Cents(c)
        ELSE Cardinality(LabelPositions(Text, k)) = 1 => k \notin DOMAIN financial_summary

\* the example of C1 was converted
C1_Witness ==
  /\ Extracted
  /\ FollowedBy(Text, "merchandise_subtotal", Render(1662970, TRUE))
  /\ FollowedBy(Text, "total_payout", <<"S", "$">> \o Render(1212072, TRUE))
  /\ DOMAIN financial_summary = {"merchandise_subtotal", "total_payout"}
  /\ financial_summary["merchandise_subtotal"] = Cents(1662970)
  /\ financial_summary["total_payout"] = Cents(1212072)

\* tokens over digits, commas, periods and minus signs that are no number
MalformedNumbers == {<<"-">>, <<".">>, <<"1", ".", "2", ".", "3">>, <<"1", "-", "2">>}

\* C2 as claimed: a label followed by a token that is not numeric yields the
\* field with value exactly 0.0, never an absent field.
C2_NonNumericIsZero ==
  Extracted =>
    \A k \in DOMAIN patterns, t \in OddTokens :
      FollowedBy(Text, k, t) =>
        k \in DOMAIN financial_summary /\ financial_summary[k] = R0

\* C2 (amended): a label followed by a token made of digits, commas, periods
\* and minus signs that is not a number yields the field with value exactly
\* 0.0; a label that occurs once, on a line without any such character,
\* yields no field.
C2_MalformedNumberIsZero ==
  Extracted =>
    \A k \in DOMAIN patterns :
      /\ \A t \in MalformedNumbers :
           FollowedBy(Text, k, t) =>
             k \in DOMAIN financial_summary /\ financial_summary[k] = R0
      /\ \A t \in {<<"x">>, <<"N", "/", "A">>} :
           FollowedBy(Text, k, t) /\ Cardinality(LabelPositions(Text, k)) = 1
             => k \notin DOMAIN financial_summary

\* a product price of 1.2.3 was recorded as 0.0
C2_Witness ==
  /\ Extracted
  /\ FollowedBy(Text, "product_price", <<"1", ".", "2", ".", "3">>)
  /\ "product_price" \in DOMAIN financial_summary
  /\ financial_summary["product_price"] = R0

\* the whitespace-separated tokens of a text
RECURSIVE Split(_)
Split(text) ==
  IF text = <<>> THEN <<>>
  ELSE IF Head(text) \in Whitespace THEN Split(Tail(text))
  ELSE LET e == RunEnd(text, 1, {text[k] : k \in 1..Len(text)} \ Whitespace)
       IN  <<SubSeq(text, 1, e - 1)>> \o Split(SubSeq(text, e, Len(text)))

\* a token in YYYY-MM-DD form
IsDate(t) ==
  /\ Len(t) = 10
  /\ t[5] = "-" /\ t[8] = "-"
  /\ \A i \in (1..10) \ {5, 8} : t[i] \in Digits

\* a token that begins with ten characters in YYYY-MM-DD form
BeginsWithDate(t) == Len(t) >= 10 /\ IsDate(SubSeq(t, 1, 10))

\* places of 'Statement for D1 to D2' among the tokens, both dates well formed
PeriodPlaces(toks) ==
  {i \in 1..(Len(toks) - 3) :
     /\ toks[i][Len(toks[i])] = "Statement for"
     /\ IsDate(toks[i + 1])
     /\ toks[i + 2] = <<"to">>
     /\ IsDate(toks[i + 3])}

\* the same, the second date possibly followed by further characters
LoosePeriodPlaces(toks) ==
  {i \in 1..(Len(toks) - 3) :
     /\ toks[i][Len(toks[i])] = "Statement for"
     /\ IsDate(toks[i + 1])
     /\ toks[i + 2] = <<"to">>
     /\ BeginsWithDate(toks[i + 3])}

PeriodKeys == {"period", "period_start", "period_end"}

PeriodIs(d1, d2) ==
  /\ PeriodKeys \subseteq DOMAIN metadata
  /\ metadata["period_start"] = d1
  /\ metadata["period_end"] = d2
  /\ metadata["period"] = d1 \o <<" ", "to", " ">> \o d2

\* C3 as claimed: well-formed period text 'Statement for D1 to D2' sets
\* period, period_start and period_end; when either date is missing or
\* malformed none of the three keys is present.
C3_PeriodOrNothing ==
  Extracted =>
    LET toks == Split(Text)
    IN  IF PeriodPlaces(toks) # {}
        THEN PeriodIs(toks[Min(PeriodPlaces(toks)) + 1], toks[Min(PeriodPlaces(toks)) + 3])
        ELSE DOMAIN metadata \cap PeriodKeys = {}

\* C3 (amended): the first 'Statement for D1 to D2' whose D1 is in
\* YYYY-MM-DD form and whose D2 begins with ten characters in that form sets
\* period_start = D1, period_end = the first ten characters of D2 and
\* period = 'D1 to ' and those ten characters; without such text none of the
\* three keys is present, so the keys are all present or all absent.
C3_PeriodFromDatePrefix ==
  Extracted =>
    LET toks == Split(Text)
    IN  IF LoosePeriodPlaces(toks) # {}
        THEN PeriodIs(toks[Min(LoosePeriodPlaces(toks)) + 1],
                      SubSeq(toks[Min(LoosePeriodPlaces(toks)) + 3], 1, 10))
        ELSE DOMAIN metadata \cap PeriodKeys = {}

\* a well-formed period was extracted
C3_Witness ==
  /\ Extracted
  /\ PeriodPlaces(Split(Text)) # {}
  /\ PeriodIs(Date1, Date2)

\* words taken to mark a marketplace statement
MarketplaceKeywords == {"Shopee", "Total Payout Released", "Commission fee", "Commission Fee"}

HasKeyword(text) == \E i \in 1..Len(text) : text[i] \in MarketplaceKeywords

\* C4: document_type is the statement type when the text contains a
\* marketplace keyword and a generic type when it contains none.
C4_DocumentTypeByKeyword ==
  Converted =>
    /\ "document_type" \in DOMAIN metadata
    /\ metadata["document_type"] = <<"Shopee Income Statement">> <=> HasKeyword(Text)

\* C5 as claimed: after a failed extract_tables_from_pdf the message carries
\* the exception detail, the converter holds no sheets and create_excel_file
\* returns None, also on a converter that converted a document before.
C5_FailureLeavesNothing ==
  last_status = "failed" =>
    /\ ret.op = "extract_tables_from_pdf" => ret.detail = ExceptionDetail(pdf_file.fault)
    /\ tables = <<>>
    /\ ret.op = "create_excel_file" => ~ret.ok

\* C5 (amended): after a failed extract_tables_from_pdf the message carries
\* the exception detail and the converter is as it was before the call: a
\* converter without an earlier successful conversion holds no sheets and
\* create_excel_file returns None, and a converter with an earlier successful
\* conversion still holds the four sheets of that conversion.
C5_FailureLeavesConverterAsItWas ==
  last_status = "failed" =>
    /\ ret.op = "extract_tables_from_pdf" => ret.detail = ExceptionDetail(pdf_file.fault)
    /\ metadata = EmptyDict =>
         /\ tables = <<>>
         /\ ret.op = "create_excel_file" => ~ret.ok
    /\ metadata # EmptyDict =>
         tables = create_structured_tables(metadata, financial_summary).tables

\* create_excel_file returned None after a failure on a new converter
C5_Witness ==
  /\ last_status = "failed"
  /\ metadata = EmptyDict
  /\ ret.op = "create_excel_file"
  /\ ~ret.ok

\* names of the sheets at the positions from i on that are in P
RECURSIVE NamesAt(_, _, _)
NamesAt(tbls, i, P) ==
  IF i > Len(tbls) THEN <<>>
  ELSE (IF i \in P THEN <<tbls[i].name>> ELSE <<>>) \o NamesAt(tbls, i + 1, P)

WrittenNames == [i \in 1..Len(ret.sheets) |-> ret.sheets[i].sheet_name]

Warnings == SelectSeq(st_messages, LAMBDA m : m.level = "warning")

WarnedNames == [i \in 1..Len(Warnings) |-> Warnings[i].about]

\* positions of the sheets whose write met one of these fault kinds
FaultsOf(kinds) == {i \in DOMAIN ret.faults : ret.faults[i] \in kinds}

CompleteSheets == SelectSeq(ret.sheets, LAMBDA w : w.complete)

CompleteNames == [i \in 1..Len(CompleteSheets) |-> CompleteSheets[i].sheet_name]

\* C6 as claimed: whichever sheets fail to write, every sheet is attempted
\* in order, each failing sheet is skipped with a warning, every other sheet
\* is written and the call returns the spreadsheet, also when all fail.
C6_AlwaysReturnsWorkbook ==
  ret.op = "create_excel_file" /\ tables # <<>> =>
    /\ ret.ok
    /\ CompleteNames = NamesAt(tables, 1, FaultsOf({"none"}))
    /\ WarnedNames = NamesAt(tables, 1, FaultsOf({"DataFrame", "to_excel"}))

\* C6 (amended): whichever sheets fail to write, every sheet is attempted in
\* order and each failing sheet gets a warning; when the workbook holds at
\* least one worksheet the call returns the spreadsheet, in which every
\* non-failing sheet is written in full and in order, and when every sheet
\* fails before its worksheet is added the save fails, an error is shown and
\* the call returns None.
C6_WorkbookUnlessNoWorksheet ==
  ret.op = "create_excel_file" /\ tables # <<>> =>
    /\ WarnedNames = NamesAt(tables, 1, FaultsOf({"DataFrame", "to_excel"}))
    /\ IF FaultsOf({"DataFrame"}) = 1..Len(tables)
       THEN /\ ~ret.ok
            /\ ret.sheets = NoSheets
            /\ st_messages[Len(st_messages)].level = "error"
       ELSE /\ ret.ok
            /\ WrittenNames = NamesAt(tables, 1, FaultsOf({"none", "to_excel"}))
            /\ CompleteNames = NamesAt(tables, 1, FaultsOf({"none"}))
            /\ \A i \in 1..Len(CompleteSheets) :
                 \E t \in 1..Len(tables) :
                   /\ tables[t].name = CompleteSheets[i].sheet_name
                   /\ CompleteSheets[i].columns = Head(tables[t].data)
                   /\ CompleteSheets[i].rows = Tail(tables[t].data)
            /\ \A i \in 1..Len(st_messages) : st_messages[i].level = "warning"

\* the second sheet failed in pd.DataFrame and the last in to_excel; the
\* other two were written
C6_Witness ==
  /\ ret.op = "create_excel_file"
  /\ ret.faults = <<"none", "DataFrame", "none", "to_excel">>
  /\ ret.ok
  /\ CompleteNames = <<"Summary_Report", "Order_Adjustments">>
  /\ WarnedNames = <<"Daily_Payout_Details", "Business_Analytics">>

\* the value cell of the row of the Business_Analytics sheet with this label
AnalyticsCell(label) ==
  LET data == tables[4].data
      r == CHOOSE r \in 1..Len(data) : data[r][1] = Word(label)
  IN  data[r][2]

Price == Get(financial_summary, "product_price", R0)

Fees == Get(financial_summary, "fees_and_charges", R0)

Payout == Get(financial_summary, "total_payout", R0)

\* a readable document was handed to extract_tables_from_pdf
ReadDocument == last_status # "none" /\ pdf_file.fault = "none"

\* C7: with product_price 0 or absent the Business Analytics sheet and the
\* metric of the page report a fee rate of 0 and a profit margin of '0%',
\* and create_structured_tables raises no division error.
C7_ZeroDenominator ==
  ReadDocument /\ Price = R0 =>
    /\ Converted
    /\ Len(tables) = 4
    /\ tables[4].name = "Business_Analytics"
    /\ AnalyticsCell("Effective Fee Rate") = Pct2(R0)
    /\ AnalyticsCell("Profit Margin") = Word("0%")
    /\ ui.shown => ui.fee_rate = R0

\* a document with 'Product Price 0.00' and fees was converted and shown
C7_Witness ==
  /\ Converted
  /\ "product_price" \in DOMAIN financial_summary
  /\ Price = R0
  /\ Fees # R0
  /\ ui.shown
  /\ ui.fee_rate = R0
  /\ AnalyticsCell("Profit Margin") = Word("0%")

\* x = a / b * 100, by cross multiplication
IsPercentOf(x, a, b) == x.d # 0 /\ x.n * b.n * a.d = 100 * a.n * b.d * x.d

\* C8 as claimed: with a nonzero product_price, positive or negative, the
\* fee rate is |fees_and_charges| / product_price * 100 and the profit
\* margin total_payout / product_price * 100; zero and '0%' only stand in
\* when product_price is zero.
C8_NonzeroDenominator ==
  Converted /\ Price # R0 =>
    /\ AnalyticsCell("Effective Fee Rate").k = "pct2"
    /\ IsPercentOf(AnalyticsCell("Effective Fee Rate").v, RatAbs(Fees), Price)
    /\ AnalyticsCell("Profit Margin").k = "pct2"
    /\ IsPercentOf(AnalyticsCell("Profit Margin").v, Payout, Price)

\* C8 (amended): with a positive product_price the fee rate is
\* |fees_and_charges| / product_price * 100 and the profit margin
\* total_payout / product_price * 100; zero and '0%' stand in whenever
\* product_price is zero, absent or negative.
C8_PositiveDenominator ==
  Converted =>
    IF Price.n > 0
    THEN /\ AnalyticsCell("Effective Fee Rate").k = "pct2"
         /\ IsPercentOf(AnalyticsCell("Effective Fee Rate").v, RatAbs(Fees), Price)
         /\ AnalyticsCell("Profit Margin").k = "pct2"
         /\ IsPercentOf(AnalyticsCell("Profit Margin").v, Payout, Price)
    ELSE /\ AnalyticsCell("Effective Fee Rate") = Pct2(R0)
         /\ AnalyticsCell("Profit Margin") = Word("0%")

\* price 100.00, fees -12.50, payout 80.00: fee rate 12.5, margin 80
C8_Witness ==
  /\ Converted
  /\ Price = Cents(10000)
  /\ Fees = Cents(-1250)
  /\ Payout = Cents(8000)
  /\ AnalyticsCell("Effective Fee Rate") = Pct2(Rat(25, 2))
  /\ AnalyticsCell("Profit Margin") = Pct2(Rat(80, 1))

\* the raw tables of the last document, page by page
RawTablesOf(pdf) ==
  UNION {{pdf.pages[p].tables[t] : t \in 1..Len(pdf.pages[p].tables)} : p \in 1..Len(pdf.pages)}

\* C9: a document without tables and without financial fields converts
\* with a success status, an empty or minimal result and a table count of 0.
C9_NothingFoundCountsZero ==
  /\ ReadDocument /\ RawTablesOf(pdf_file) = {} /\ Text = <<>> => Converted
  /\ Converted /\ RawTablesOf(pdf_file) = {} /\ financial_summary = EmptyDict =>
       /\ tables = <<>>
       /\ ret.op = "extract_tables_from_pdf" => ret.n = 0

BlankCell(c) == c.null \/ \A i \in 1..Len(c.s) : c.s[i] \in Whitespace

RowNotBlank(row) == \E j \in 1..Len(row) : ~BlankCell(row[j])

RECURSIVE JoinWords(_)
JoinWords(toks) ==
  IF toks = <<>> THEN <<>>
  ELSE IF Len(toks) = 1 THEN toks[1]
  ELSE toks[1] \o <<" ">> \o JoinWords(Tail(toks))

\* null becomes the empty string; runs of whitespace collapse to one space
\* and the ends are trimmed
CleanCell(c) == IF c.null THEN Str(<<>>) ELSE Str(JoinWords(Split(c.s)))

Normalized(raw) ==
  LET rows == SelectSeq(raw, RowNotBlank)
  IN  [i \in 1..Len(rows) |-> [j \in 1..Len(rows[i]) |-> CleanCell(rows[i][j])]]

\* C10: every raw table with at least two non-blank rows is emitted as one
\* sheet of the conversion, blank rows removed and cells cleaned.
C10_RawTableBecomesSheet ==
  Converted =>
    \A raw \in RawTablesOf(pdf_file) :
      Len(SelectSeq(raw, RowNotBlank)) >= 2 =>
        \E i \in 1..Len(tables) : tables[i].data = Normalized(raw)

====
